---- MODULE Spec2Model ----
(***************************************************************************)
(* A model of src/main.rs of rsapp: the axum server with its four          *)
(* handlers (root, long_time_request, create_user, video_metadata), the    *)
(* graceful shutdown of serve, and the container handles video_metadata    *)
(* opens through ffmpeg.                                                   *)
(*                                                                         *)
(* Every request is a slot of req.  A handler is cut into the steps at     *)
(* which another task can run: the .await points of create_user and        *)
(* long_time_request, and for video_metadata (which has none, and runs in  *)
(* parallel with other calls on the multi-threaded runtime) the match on   *)
(* the open, the header block, each loop iteration and the return.         *)
(*                                                                         *)
(* What the environment decides is drawn with \E: the file behind a path   *)
(* (whether it opens, its metadata entries, its streams and the state of   *)
(* each stream's codec parameters), the outcome of each database call,     *)
(* the stream ffmpeg's best() picks, and the arrival of a signal.          *)
(***************************************************************************)
EXTENDS Integers, Sequences, FiniteSets

\* ---------------------------------------------------------------- bounds
MaxStreams == 2       \* streams per container, video_metadata alone
MaxMeta == 1          \* metadata entries per container
MaxReq == 2           \* requests the server accepts in one run

VARIABLES server, drain, req, handles, nextHandle

vars == <<server, drain, req, handles, nextHandle>>

Slots == 1..MaxReq

\* ------------------------------------------------------------ the inputs
\* ffmpeg::media::Type, as the spec's five categories.
Categories == {"Video", "Audio", "Subtitle", "Data", "Unknown"}

\* The categories video_metadata asks a best stream for.
BestKinds == {"Video", "Audio", "Subtitle"}

\* The state of one stream's parameter block:
\*   ok         from_parameters is Ok, and the decoder opens
\*   nodecoder  from_parameters is Ok, codec.decoder().video()/audio() is Err
\*   corrupt    from_parameters is Err
StreamKinds ==
    {[category |-> c, params |-> p] : c \in Categories, p \in {"ok", "corrupt"}}
        \cup {[category |-> c, params |-> "nodecoder"] : c \in {"Video", "Audio"}}

\* The diagnostics of a failed ffmpeg::format::input.
OpenErrors == {"Invalid data found when processing input", "No such file or directory"}

SeqsUpTo(S, n) == UNION {[1..k -> S] : k \in 0..n}

\* What a path can name: a file that does not open, or a container.
Files(n) ==
    {[open |-> d, meta |-> 0, streams |-> <<>>] : d \in OpenErrors}
        \cup {[open |-> "ok", meta |-> m, streams |-> ss] :
                m \in 0..MaxMeta, ss \in SeqsUpTo(StreamKinds, n)}

\* The files of the runs with several requests in flight.
SmallFiles == {f \in Files(1) : f.meta = 0}

Usernames == {"jd", "ann"}

DbName == "hello world from pg"

DbError == "error returned from database"

\* ------------------------------------------------------ values of a slot
None == -1

NoFile == [open |-> "none", meta |-> 0, streams |-> <<>>]

NoSel == [Video |-> None, Audio |-> None, Subtitle |-> None]

NoUser == [id |-> 0, username |-> ""]

NoName == [ok |-> FALSE, status |-> 0, val |-> ""]

NoResp == [status |-> 0, body |-> "", user |-> NoUser]

Event(e, i, t) == [ev |-> e, idx |-> i, text |-> t]

IdleReq ==
    [kind |-> "none", pc |-> "idle", file |-> NoFile, username |-> "",
     ctx |-> 0, cursor |-> 0, sel |-> NoSel, out |-> <<>>, steps |-> <<>>,
     tx |-> "none", name |-> NoName, user |-> NoUser, resp |-> NoResp]

Kinds == {"root", "longtime", "users", "video"}

\* Where a handler starts.
Entry(kind) ==
    CASE kind = "root" -> "root"
      [] kind = "longtime" -> "sleep"
      [] kind = "users" -> "begin"
      [] kind = "video" -> "open"

Running(q) == q.pc \notin {"idle", "done", "panicked"}

Finished(q) == q.pc \in {"done", "panicked"}

\* A panic unwinds the handler: no response, the task ends.
Panicked(q) == [q EXCEPT !.pc = "panicked", !.ctx = 0]

Init ==
    /\ server = "running"
    /\ drain = {}
    /\ req = [r \in Slots |-> IdleReq]
    /\ handles = {}
    /\ nextHandle = 1

\* ---------------------------------------------------------------- serve
\* The router hands a request to its handler; serve accepts none once the
\* shutdown signal has arrived.
Accept(r, kind, file, username) ==
    /\ server = "running"
    /\ req[r].pc = "idle"
    /\ \A p \in Slots : p < r => req[p].pc # "idle"
    /\ req' = [req EXCEPT ![r] = [IdleReq EXCEPT !.kind = kind, !.pc = Entry(kind),
                                                 !.file = file, !.username = username]]
    /\ UNCHANGED <<server, drain, handles, nextHandle>>

\* shutdown_signal: Ctrl+C or SIGTERM completes the select!.  drain is the
\* set of requests in flight at that moment, the ones serve then waits for.
Signal ==
    /\ server = "running"
    /\ server' = "draining"
    /\ drain' = {r \in Slots : Running(req[r])}
    /\ UNCHANGED <<req, handles, nextHandle>>

\* with_graceful_shutdown: serve returns once no request is in flight.
Terminate ==
    /\ server = "draining"
    /\ \A r \in Slots : ~Running(req[r])
    /\ server' = "terminated"
    /\ UNCHANGED <<drain, req, handles, nextHandle>>

\* ----------------------------------------------- root, long_time_request
Root(r) ==
    /\ req[r].pc = "root"
    /\ req' = [req EXCEPT ![r] = [@ EXCEPT !.pc = "done", !.steps = Append(@, "respond"),
                                          !.resp = [NoResp EXCEPT !.status = 200,
                                                                  !.body = "Hello, World!"]]]
    /\ UNCHANGED <<server, drain, handles, nextHandle>>

LongTime(r) ==
    /\ req[r].pc = "sleep"
    /\ req' = [req EXCEPT ![r] = [@ EXCEPT !.pc = "done", !.steps = Append(@, "respond"),
                                          !.resp = [NoResp EXCEPT !.status = 200,
                                                                  !.body = "Long time request."]]]
    /\ UNCHANGED <<server, drain, handles, nextHandle>>

\* ---------------------------------------------------------- create_user
InternalError(err) == [ok |-> FALSE, status |-> 500, val |-> err]

\* let mut user = User { id: 1337, username: payload.username }
NewUser(q) == [id |-> 1337, username |-> q.username]

\* pool.begin().await.unwrap()
CuBegin(r) ==
    LET q == [req[r] EXCEPT !.user = NewUser(req[r])] IN
    /\ req[r].pc = "begin"
    /\ \E ok \in BOOLEAN :
         req' = [req EXCEPT ![r] =
                   IF ok THEN [q EXCEPT !.tx = "open", !.pc = "query",
                                        !.steps = Append(@, "begin")]
                         ELSE Panicked(q)]
    /\ UNCHANGED <<server, drain, handles, nextHandle>>

\* query_scalar(..).fetch_one(&mut *tx).await.map_err(internal_error)
CuQuery(r) ==
    /\ req[r].pc = "query"
    /\ \E ok \in BOOLEAN :
         req' = [req EXCEPT ![r] =
                   [@ EXCEPT !.name = IF ok THEN [ok |-> TRUE, status |-> 0, val |-> DbName]
                                          ELSE InternalError(DbError),
                             !.pc = "commit", !.steps = Append(@, "query")]]
    /\ UNCHANGED <<server, drain, handles, nextHandle>>

UnwrapNameKeepsPayload(q) == [q EXCEPT !.steps = Append(@, "respond"), !.pc = "done",
                                       !.resp = [status |-> 201, body |-> "", user |-> q.user]]

\* user.username = name.unwrap(); (StatusCode::CREATED, Json(user))
UnwrapName(q) ==
    IF q.name.ok
    THEN [q EXCEPT !.user = [@ EXCEPT !.username = q.name.val],
                   !.steps = Append(@, "respond"), !.pc = "done",
                   !.resp = [status |-> 201, body |-> "",
                             user |-> [q.user EXCEPT !.username = q.name.val]]]
    ELSE Panicked(q)

\* tx.commit().await.unwrap(), then the rest of the handler (no .await in it).
CuCommit(r) ==
    /\ req[r].pc = "commit"
    /\ \E ok \in BOOLEAN :
         req' = [req EXCEPT ![r] =
                   IF ok THEN UnwrapName([@ EXCEPT !.tx = "committed",
                                                   !.steps = Append(@, "commit")])
                         ELSE Panicked([@ EXCEPT !.tx = "rolledback"])]
    /\ UNCHANGED <<server, drain, handles, nextHandle>>

\* ------------------------------------------------------- video_metadata
\* context.streams().best(kind): ffmpeg's choice is not in this repository;
\* what its interface gives is None or a stream of the asked category.
Best(streams, kind) ==
    {None} \cup {i - 1 : i \in {j \in DOMAIN streams : streams[j].category = kind}}

BestArgPasted(kind) == "Video"

\* The media type each of the three best() calls is given.
BestArg(kind) == kind

\* The Err arm with the duration line moved out of the Ok arm.
ErrArmPartial(q) ==
    [q EXCEPT !.out = @ \o <<Event("error", None, q.file.open), Event("duration", None, "")>>,
              !.resp = [NoResp EXCEPT !.status = 400, !.body = "failed"],
              !.steps = @ \o <<"open_failed", "respond">>, !.pc = "done"]

\* Err(error) => { println!("error: {}", error); (BAD_REQUEST, "failed") }
ErrArm(q) ==
    [q EXCEPT !.out = Append(@, Event("error", None, q.file.open)),
              !.resp = [NoResp EXCEPT !.status = 400, !.body = "failed"],
              !.steps = @ \o <<"open_failed", "respond">>, !.pc = "done"]

\* The order of the specification: enumerate and resolve, then select.
AfterSelectLast(step) ==
    CASE step = "open" -> "streams"
      [] step = "streams" -> "select"
      [] step = "select" -> "respond"

\* The order of the blocks of the Ok arm.
After(step) ==
    CASE step = "open" -> "select"
      [] step = "select" -> "streams"
      [] step = "streams" -> "respond"

ReleasedNever(hs, q) == hs

\* The context is dropped when its scope ends, and when a panic unwinds.
Released(hs, q) == hs \ {q.ctx}

\* ffmpeg::init().unwrap() (init always returns Ok), println!(file), and the
\* match on ffmpeg::format::input(&payload.file).
VmOpen(r) ==
    LET q == [req[r] EXCEPT !.out = Append(@, Event("file", None, ""))] IN
    /\ req[r].pc = "open"
    /\ IF q.file.open = "ok"
       THEN /\ req' = [req EXCEPT ![r] = [q EXCEPT !.ctx = nextHandle, !.pc = After("open"),
                                                   !.steps = Append(@, "open")]]
            /\ handles' = handles \cup {nextHandle}
            /\ nextHandle' = nextHandle + 1
       ELSE /\ req' = [req EXCEPT ![r] = ErrArm(q)]
            /\ UNCHANGED <<handles, nextHandle>>
    /\ UNCHANGED <<server, drain>>

BestLine(kind, i) == IF i = None THEN <<>> ELSE <<Event("best", i, kind)>>

\* The metadata lines, the three best() calls and the duration line.
VmSelect(r) ==
    /\ req[r].pc = "select"
    /\ \E v \in Best(req[r].file.streams, BestArg("Video")),
          a \in Best(req[r].file.streams, BestArg("Audio")),
          s \in Best(req[r].file.streams, BestArg("Subtitle")) :
         req' = [req EXCEPT ![r] =
                   [@ EXCEPT !.sel = [Video |-> v, Audio |-> a, Subtitle |-> s],
                             !.out = @ \o [k \in 1..req[r].file.meta |-> Event("metadata", k, "")]
                                       \o BestLine("Video", v) \o BestLine("Audio", a)
                                       \o BestLine("Subtitle", s)
                                       \o <<Event("duration", None, "")>>,
                             !.steps = Append(@, "select"),
                             !.pc = After("select")]]
    /\ UNCHANGED <<server, drain, handles, nextHandle>>

\* The lines of a stream whose from_parameters was Ok.
CodecLines(st, i) ==
    <<Event("codec", i, st.category)>>
        \o (IF st.category \in {"Video", "Audio"} /\ st.params = "ok"
            THEN <<Event("params", i, st.category)>> ELSE <<>>)

\* One iteration of for stream in context.streams().
VmStream(r) ==
    LET q == req[r]
        i == q.cursor
        st == q.file.streams[i + 1]
        listed == [q EXCEPT !.out = Append(@, Event("stream", i, "")),
                            !.steps = Append(@, "stream")]
    IN
    /\ q.pc = "streams"
    /\ q.cursor < Len(q.file.streams)
    /\ IF st.params = "corrupt"
       THEN /\ req' = [req EXCEPT ![r] = Panicked(listed)]
            /\ handles' = Released(handles, q)
       ELSE /\ req' = [req EXCEPT ![r] = [listed EXCEPT !.out = @ \o CodecLines(st, i),
                                                        !.cursor = i + 1]]
            /\ UNCHANGED handles
    /\ UNCHANGED <<server, drain, nextHandle>>

\* The iterator is exhausted.
VmLoopEnd(r) ==
    /\ req[r].pc = "streams"
    /\ req[r].cursor = Len(req[r].file.streams)
    /\ req' = [req EXCEPT ![r] = [@ EXCEPT !.pc = After("streams")]]
    /\ UNCHANGED <<server, drain, handles, nextHandle>>

\* (StatusCode::OK, "ok"), and the end of the Ok arm.
VmRespond(r) ==
    /\ req[r].pc = "respond"
    /\ req' = [req EXCEPT ![r] = [@ EXCEPT !.resp = [NoResp EXCEPT !.status = 200, !.body = "ok"],
                                          !.steps = Append(@, "respond"),
                                          !.ctx = 0, !.pc = "done"]]
    /\ handles' = Released(handles, req[r])
    /\ UNCHANGED <<server, drain, nextHandle>>

\* ------------------------------------------------------- specifications
\* One video_metadata call, over every file of up to MaxStreams streams.
Next ==
    \/ \E f \in Files(MaxStreams) : Accept(1, "video", f, "")
    \/ VmOpen(1)
    \/ VmSelect(1)
    \/ VmStream(1)
    \/ VmLoopEnd(1)
    \/ VmRespond(1)

Spec == Init /\ [][Next]_vars

\* video_metadata calls in flight together, each on its own file.
HandleNext ==
    \/ \E r \in Slots : \E f \in SmallFiles : Accept(r, "video", f, "")
    \/ \E r \in Slots : VmOpen(r)
    \/ \E r \in Slots : VmSelect(r)
    \/ \E r \in Slots : VmStream(r)
    \/ \E r \in Slots : VmLoopEnd(r)
    \/ \E r \in Slots : VmRespond(r)

HandleSpec == Init /\ [][HandleNext]_vars

\* create_user calls in flight together, over every payload and every
\* outcome of the three database calls.
UserNext ==
    \/ \E r \in Slots : \E u \in Usernames : Accept(r, "users", NoFile, u)
    \/ \E r \in Slots : CuBegin(r)
    \/ \E r \in Slots : CuQuery(r)
    \/ \E r \in Slots : CuCommit(r)

UserSpec == Init /\ [][UserNext]_vars

InputFiles(kind) == IF kind = "video" THEN SmallFiles ELSE {NoFile}

InputNames(kind) == IF kind = "users" THEN Usernames ELSE {""}

\* The server: up to MaxReq requests of any kind, in flight together.
ServeNext ==
    \/ \E r \in Slots, k \in Kinds :
         \E f \in InputFiles(k), u \in InputNames(k) : Accept(r, k, f, u)
    \/ \E r \in Slots : Root(r)
    \/ \E r \in Slots : LongTime(r)
    \/ \E r \in Slots : CuBegin(r)
    \/ \E r \in Slots : CuQuery(r)
    \/ \E r \in Slots : CuCommit(r)
    \/ \E r \in Slots : VmOpen(r)
    \/ \E r \in Slots : VmSelect(r)
    \/ \E r \in Slots : VmStream(r)
    \/ \E r \in Slots : VmLoopEnd(r)
    \/ \E r \in Slots : VmRespond(r)
    \/ Signal
    \/ Terminate

ServeSpec == Init /\ [][ServeNext]_vars

\* --------------------------------------------------------------- claims
Q(r) == req[r]

IsVideo(r) == req[r].kind = "video"

Opened(r) == IsVideo(r) /\ req[r].file.open = "ok"

OpenFailed(r) == IsVideo(r) /\ req[r].file.open \in OpenErrors

Count(seq, x) == Cardinality({k \in DOMAIN seq : seq[k] = x})

HasEvent(q, e, i) == \E k \in DOMAIN q.out : q.out[k].ev = e /\ q.out[k].idx = i

\* The lines that are part of a report.
ReportEvents == {"metadata", "best", "duration", "stream", "codec", "params"}

OkResp == [NoResp EXCEPT !.status = 200, !.body = "ok"]

FailedResp == [NoResp EXCEPT !.status = 400, !.body = "failed"]

\* C1: when the open fails, video_metadata ends with exactly one failure
\* response, (400, "failed"), and nothing of a report is produced: no
\* metadata, best-stream, duration or per-stream line, no selection, no
\* stream visited, no handle.
C1_OpenFailureNoPartialReport ==
    \A r \in Slots : OpenFailed(r) =>
        /\ \A k \in DOMAIN Q(r).out : Q(r).out[k].ev \notin ReportEvents
        /\ Q(r).sel = NoSel /\ Q(r).cursor = 0 /\ Q(r).ctx = 0
        /\ Q(r).pc \in {"open", "done"}
        /\ Q(r).pc = "open" => Q(r).resp = NoResp /\ Q(r).steps = <<>>
        /\ Q(r).pc = "done" => /\ Q(r).resp = FailedResp
                               /\ Q(r).steps = <<"open_failed", "respond">>
                               /\ Count(Q(r).steps, "respond") = 1

C1_Witness ==
    \E r \in Slots : OpenFailed(r) /\ Q(r).pc = "done" /\ Q(r).resp.status = 400

\* C2: a call whose container opened ends with the success response, with
\* every stream listed, whatever the state of the streams' codec parameters;
\* a stream whose parameters give no decoder context has no parameter lines.
C2_UnresolvableStreamDoesNotAbort ==
    \A r \in Slots : Opened(r) /\ Finished(Q(r)) =>
        /\ Q(r).pc = "done" /\ Q(r).resp = OkResp
        /\ \A i \in DOMAIN Q(r).file.streams :
             /\ HasEvent(Q(r), "stream", i - 1)
             /\ Q(r).file.streams[i].params # "ok" => ~HasEvent(Q(r), "params", i - 1)

\* C3: resolving the codec parameters of a Subtitle, Data or Unknown stream
\* never panics and yields no parameters, whatever its parameter block.
C3_SoftCategoriesNeverRaise ==
    \A r \in Slots : IsVideo(r) =>
        \A i \in DOMAIN Q(r).file.streams :
            Q(r).file.streams[i].category \in {"Subtitle", "Data", "Unknown"} =>
                /\ ~(Q(r).pc = "panicked" /\ Q(r).cursor = i - 1)
                /\ ~HasEvent(Q(r), "params", i - 1)

NoStreamOf(q, kind) == \A i \in DOMAIN q.file.streams : q.file.streams[i].category # kind

\* C4: once the selection has run, the best stream of a category the
\* container has no stream of is None, with no line printed for it, and the
\* selection itself never panics; a container with no stream at all has all
\* three selections None, no stream listed, and ends with the success
\* response.
C4_AbsentCategoryIsNone ==
    \A r \in Slots : Opened(r) =>
        /\ \A kind \in BestKinds :
             NoStreamOf(Q(r), kind) =>
                /\ Q(r).sel[kind] = None
                /\ \A k \in DOMAIN Q(r).out :
                     ~(Q(r).out[k].ev = "best" /\ Q(r).out[k].text = kind)
        /\ Q(r).pc = "panicked" => Q(r).cursor < Len(Q(r).file.streams)
        /\ Q(r).file.streams = <<>> =>
                /\ Q(r).sel = NoSel
                /\ Q(r).pc # "panicked"
                /\ \A k \in DOMAIN Q(r).out : Q(r).out[k].ev \notin {"stream", "codec", "params"}
                /\ Finished(Q(r)) => Q(r).resp = OkResp

C4_Witness ==
    \E r \in Slots : /\ Opened(r) /\ Q(r).file.streams = <<>>
                     /\ Q(r).pc = "done" /\ Q(r).resp = OkResp
                     /\ Count(Q(r).steps, "select") = 1

StepOrder(n) == <<"open", "select">> \o [k \in 1..n |-> "stream"] \o <<"respond">>

C7_HandlesOwnedAndReleased ==
    /\ handles = {Q(r).ctx : r \in {s \in Slots : Q(s).ctx # 0}}
    /\ \A r1, r2 \in Slots : r1 # r2 /\ Q(r1).ctx # 0 => Q(r1).ctx # Q(r2).ctx
    /\ \A r \in Slots : Q(r).ctx # 0 =>
            IsVideo(r) /\ Running(Q(r)) /\ Count(Q(r).steps, "open") = 1
    /\ \A r \in Slots : Opened(r) /\ Running(Q(r)) /\ Q(r).pc # "open" => Q(r).ctx # 0
    /\ \A h \in handles : h < nextHandle
    /\ (\A r \in Slots : ~Running(Q(r))) => handles = {}

C7_Witness ==
    \E r1, r2 \in Slots :
        /\ Opened(r1) /\ Q(r1).pc = "panicked"
        /\ Opened(r2) /\ Q(r2).pc = "done" /\ Q(r2).resp = OkResp
        /\ nextHandle = 3 /\ handles = {}

\* C8: when the server has terminated, every request that was in flight
\* when the signal arrived has finished and its response has been produced.
C8_ShutdownWaitsForResponses ==
    server = "terminated" =>
        \A r \in drain : Finished(Q(r)) /\ Q(r).resp # NoResp

\* What with_graceful_shutdown does give: no request is still running when
\* the server terminates.
ShutdownWaitsForInFlight ==
    server = "terminated" => \A r \in Slots : ~Running(Q(r))

IsUsers(r) == req[r].kind = "users"

Created == [status |-> 201, body |-> "", user |-> [id |-> 1337, username |-> DbName]]

C10_OpenErrorSurfacedVerbatim ==
    \A r \in Slots : OpenFailed(r) /\ Q(r).pc = "done" => Q(r).resp.body = Q(r).file.open

====
